---- MODULE Spec2Model ----
(***************************************************************************)
(* Model of octokit-load-balancer's getApp (src/pool.ts): validation of    *)
(* the request, construction of one Octokit per app, the parallel quota    *)
(* probes joined by Promise.all, the reduction to the best app and the     *)
(* DEBUG-gated diagnostics.                                                *)
(*                                                                         *)
(* JavaScript arrays are modelled as TLA+ sequences: the element the code  *)
(* calls x[i] is the element i + 1 of the sequence.  Indices that the code *)
(* computes or stores (bestIndex, appIndex) keep their 0-based value.      *)
(***************************************************************************)
EXTENDS Integers, Sequences, FiniteSets, TLC

VARIABLES
    pc,          \* where getApp is: "idle", "await" (suspended), "done"
    config,      \* the request getApp was called with
    DEBUG,       \* process.env.DEBUG
    quota,       \* the remaining quota the server holds for each app
    octokits,    \* the clients getApp constructed
    issued,      \* per client, the number of rateLimit.get() requests sent
    probe,       \* per client, the promise getRateLimit returned
    values,      \* the result array Promise.all fills
    join,        \* the promise Promise.all returned
    rateLimits,  \* the snapshots getApp received from its await
    result,      \* what getApp returned or threw
    console,     \* the lines console.log received
    logCalls,    \* history: the calls of log, with the DEBUG each one saw
    outOfOrder   \* history: a probe settled before one of a smaller index

vars == <<pc, config, DEBUG, quota, octokits, issued, probe, values, join,
          rateLimits, result, console, logCalls, outOfOrder>>

(***************************************************************************)
(* Bounds of the model.                                                    *)
(***************************************************************************)
MaxApps == 3

MaxRemaining == 2

MaxDebugLen == 4

(***************************************************************************)
(* Values of the request.                                                  *)
(***************************************************************************)
\* A property of an entry: missing, present but falsy (''), or truthy.
Absent == "<absent>"

FieldValues == {Absent, "", "set"}

\* The entries of config.apps: objects with or without the two fields, and
\* the two non-object shapes the runtime checks of isCompleteConfig reject.
Entries ==
    { [kind |-> "object", appId |-> a, privateKey |-> k] :
          a \in FieldValues, k \in FieldValues }
    \cup { [kind |-> "null", appId |-> Absent, privateKey |-> Absent],
           [kind |-> "string", appId |-> Absent, privateKey |-> Absent] }

typeofEntry(app) == IF app.kind = "string" THEN "string" ELSE "object"

\* config.baseUrl: missing, a number, the empty string, a URL.
BaseUrlValues == {"<undefined>", "<number>", "", "https://github.example.com/api/v3"}

typeofBaseUrl(b) ==
    CASE b = "<undefined>" -> "undefined"
      [] b = "<number>" -> "number"
      [] OTHER -> "string"

SeqsUpTo(S, n) == UNION { [1..k -> S] : k \in 0..n }

\* config.apps: an array of entries, or a value that is not an array.
AppsValues ==
    { [isArray |-> TRUE, items |-> s] : s \in SeqsUpTo(Entries, MaxApps) }
    \cup { [isArray |-> FALSE, items |-> <<>>] }

NoConfig == [kind |-> "undefined", apps |-> [isArray |-> FALSE, items |-> <<>>],
             baseUrl |-> "<undefined>"]

Requests ==
    { [kind |-> "object", apps |-> a, baseUrl |-> b] :
          a \in AppsValues, b \in BaseUrlValues }
    \cup { NoConfig, [NoConfig EXCEPT !.kind = "null"] }

\* config?.apps and config?.baseUrl
OptApps(c) ==
    IF c.kind = "object" THEN c.apps ELSE [isArray |-> FALSE, items |-> <<>>]

OptBaseUrl(c) == IF c.kind = "object" THEN c.baseUrl ELSE "<undefined>"

(***************************************************************************)
(* Errors.  One record shape for all of them: the error's class, the       *)
(* number it reports (IncompleteConfig) and the probe it came from         *)
(* (errors of the network layer, -1 otherwise).                            *)
(***************************************************************************)
Err(type, msg, count, at) == [type |-> type, msg |-> msg, count |-> count, at |-> at]

NoError == Err("none", "", 0, -1)

InvalidApps == Err("InvalidRequest", "Invalid config: apps must be an array", 0, -1)

InvalidBaseUrl == Err("InvalidRequest", "Invalid config: baseUrl must be a string", 0, -1)

EmptyPool == Err("EmptyPool", "Invalid config: apps array is empty", 0, -1)

IncompleteConfig(n) ==
    Err("IncompleteConfig", "Invalid config: app(s) missing required appId or privateKey", n, -1)

PoolExhausted ==
    Err("PoolExhausted", "All GitHub Apps have exhausted their rate limits", 0, -1)

\* Reading .remaining of undefined (rateLimits[0] of an empty array).
TypeError == Err("TypeError", "Cannot read properties of undefined", 0, -1)

\* The error of octokit.rest.rateLimit.get() on a network or authentication
\* failure.
ProbeErrorNames == {"RequestError"}

ProbeError(name, i) == Err(name, "", 0, i)

ValidationErrorTypes == {"InvalidRequest", "EmptyPool", "IncompleteConfig"}

(***************************************************************************)
(* isCompleteConfig and the validation of getApp.                          *)
(***************************************************************************)
Truthy(v) == v # Absent /\ v # ""

\* Variant: the private key is not looked at.
isCompleteConfig_appIdOnly(app) ==
    /\ typeofEntry(app) = "object"
    /\ app.kind # "null"
    /\ app.appId # Absent
    /\ Truthy(app.appId)

isCompleteConfig(app) ==
    /\ typeofEntry(app) = "object"
    /\ app.kind # "null"
    /\ app.appId # Absent
    /\ app.privateKey # Absent
    /\ Truthy(app.appId) /\ Truthy(app.privateKey)

invalidApps(apps) == SelectSeq(apps, LAMBDA app : ~isCompleteConfig(app))

\* Variant: baseUrl is tested for truthiness, not for its type.
Validate_truthyBaseUrl(c) ==
    IF ~OptApps(c).isArray THEN InvalidApps
    ELSE IF typeofBaseUrl(OptBaseUrl(c)) # "string" \/ OptBaseUrl(c) = ""
         THEN InvalidBaseUrl
    ELSE IF Len(c.apps.items) = 0 THEN EmptyPool
    ELSE IF Len(invalidApps(c.apps.items)) > 0
         THEN IncompleteConfig(Len(invalidApps(c.apps.items)))
    ELSE NoError

\* Variant: the emptiness of apps is tested before the type of baseUrl.
Validate_emptyFirst(c) ==
    IF ~OptApps(c).isArray THEN InvalidApps
    ELSE IF Len(c.apps.items) = 0 THEN EmptyPool
    ELSE IF typeofBaseUrl(OptBaseUrl(c)) # "string" THEN InvalidBaseUrl
    ELSE IF Len(invalidApps(c.apps.items)) > 0
         THEN IncompleteConfig(Len(invalidApps(c.apps.items)))
    ELSE NoError

\* The checks of getApp in the order of the code; the first that fails throws.
Validate(c) ==
    IF ~OptApps(c).isArray THEN InvalidApps
    ELSE IF typeofBaseUrl(OptBaseUrl(c)) # "string" THEN InvalidBaseUrl
    ELSE IF Len(c.apps.items) = 0 THEN EmptyPool
    ELSE IF Len(invalidApps(c.apps.items)) > 0
         THEN IncompleteConfig(Len(invalidApps(c.apps.items)))
    ELSE NoError

(***************************************************************************)
(* createOctokit and getRateLimit.                                         *)
(***************************************************************************)
DefaultBaseUrl == "https://api.github.com"

\* The client built from apps[i]: app names the entry whose credentials the
\* client authenticates with (its appId, installationId and privateKey).
createOctokit(appConfig, baseUrl, i) ==
    [app |-> i,
     appId |-> appConfig.appId,
     baseUrl |-> IF baseUrl = "" THEN DefaultBaseUrl ELSE baseUrl]

\* The snapshot getRateLimit(octokit, index) resolves to: the rate the
\* server reports for the client's credentials, tagged with index.
getRateLimit(octokit, index, q) ==
    [limit |-> MaxRemaining,
     used |-> MaxRemaining - q[octokit.app + 1],
     remaining |-> q[octokit.app + 1],
     appIndex |-> index]

\* A slot of Promise.all's result array that no promise has filled yet.
Hole == [limit |-> -1, used |-> -1, remaining |-> -1, appIndex |-> -1]

\* Variant: the clients are built before the entries are validated.
Octokits_beforeValidation(c) ==
    IF OptApps(c).isArray
    THEN [i \in 1..Len(c.apps.items) |->
              createOctokit(c.apps.items[i], OptBaseUrl(c), i - 1)]
    ELSE <<>>

\* validApps.map((app) => createOctokit(app, config.baseUrl)): reached only
\* when no check of the validation has thrown.
Octokits(c) ==
    IF Validate(c) = NoError
    THEN [i \in 1..Len(c.apps.items) |->
              createOctokit(c.apps.items[i], c.baseUrl, i - 1)]
    ELSE <<>>

(***************************************************************************)
(* Promise.all over the probes.                                            *)
(***************************************************************************)
\* Variant: the value is pushed, so the array is in completion order.
PromiseAllStore_completionOrder(vals, i, v) ==
    [vals EXCEPT ![CHOOSE k \in DOMAIN vals :
                       /\ vals[k].appIndex = -1
                       /\ \A m \in 1..(k - 1) : vals[m].appIndex # -1] = v]

\* The promise at position i fulfilled with v: Promise.all stores the value
\* at the position of the promise in the input array.
PromiseAllStore(vals, i, v) == [vals EXCEPT ![i] = v]

Fulfilled(p) == { i \in DOMAIN p : p[i].state = "fulfilled" }

Rejected(p) == { i \in DOMAIN p : p[i].state = "rejected" }

Pending(p) == { i \in DOMAIN p : p[i].state = "pending" }

\* Variant: the join fulfils with the first input that fulfils.
PromiseAllOnFulfil_any(j, p) ==
    IF j.state = "pending" /\ Fulfilled(p) # {}
    THEN [state |-> "fulfilled", reason |-> NoError]
    ELSE j

\* The promise Promise.all returned, after one of its input promises
\* fulfilled (p is the state of the inputs after it): it fulfils once every
\* input has fulfilled.
PromiseAllOnFulfil(j, p) ==
    IF j.state = "pending" /\ Fulfilled(p) = DOMAIN p
    THEN [state |-> "fulfilled", reason |-> NoError]
    ELSE j

\* Variant: a rejection is swallowed; the join fulfils once every input has
\* settled, the slots of the rejected ones left unfilled.
PromiseAllOnReject_swallow(j, p, e) ==
    IF j.state = "pending" /\ Pending(p) = {}
    THEN [state |-> "fulfilled", reason |-> NoError]
    ELSE j

\* The promise Promise.all returned, after one of its input promises rejected
\* with e: it rejects with the reason of the first rejection, whatever the
\* state p of the other inputs.
PromiseAllOnReject(j, p, e) ==
    IF j.state = "pending" THEN [state |-> "rejected", reason |-> e] ELSE j

\* Promise.all(promises): already fulfilled for an empty array.
PromiseAll(n) ==
    IF n = 0 THEN [state |-> "fulfilled", reason |-> NoError]
    ELSE [state |-> "pending", reason |-> NoError]

NoJoin == [state |-> "none", reason |-> NoError]

(***************************************************************************)
(* The reduction of getApp.                                                *)
(***************************************************************************)
\* Variant: >= in place of >, the last maximum wins.
ReduceStep_lastWins(acc, cur, i) ==
    IF cur.remaining >= acc.rateLimit.remaining
    THEN [bestIndex |-> i, rateLimit |-> cur]
    ELSE acc

\* (acc, cur, i) => cur.remaining > acc.rateLimit.remaining ? ... : acc
ReduceStep(acc, cur, i) ==
    IF cur.remaining > acc.rateLimit.remaining
    THEN [bestIndex |-> i, rateLimit |-> cur]
    ELSE acc

RECURSIVE ReduceFrom(_, _, _)
ReduceFrom(rl, acc, k) ==
    IF k > Len(rl) THEN acc
    ELSE ReduceFrom(rl, ReduceStep(acc, rl[k], k - 1), k + 1)

\* rateLimits.reduce(..., { bestIndex: 0, rateLimit: rateLimits[0] })
Reduce(rl) == ReduceFrom(rl, [bestIndex |-> 0, rateLimit |-> rl[1]], 1)

NoResult == [kind |-> "none", error |-> NoError, bestIndex |-> -1, octokit |-> -1]

Throw(e) == [kind |-> "error", error |-> e, bestIndex |-> -1, octokit |-> -1]

\* return octokits[bestIndex]: the client is named by the entry it was
\* built from.
Return(best, oks) ==
    [kind |-> "client", error |-> NoError, bestIndex |-> best,
     octokit |-> oks[best + 1].app]

\* Variant: the exhaustion check looks at the first snapshot only.
Select_firstOnly(rl, oks) ==
    IF Len(rl) = 0 THEN Throw(TypeError)
    ELSE IF rl[1].remaining = 0 THEN Throw(PoolExhausted)
    ELSE Return(Reduce(rl).bestIndex, oks)

\* The part of getApp after the await, on the joined snapshots.
Select(rl, oks) ==
    IF Len(rl) = 0 THEN Throw(TypeError)
    ELSE IF Reduce(rl).rateLimit.remaining = 0 THEN Throw(PoolExhausted)
    ELSE Return(Reduce(rl).bestIndex, oks)

(***************************************************************************)
(* Diagnostics: isDebugEnabled and log.  The value of process.env.DEBUG is *)
(* unset or a string, a string being a sequence of characters.  DEBUG_KEY  *)
(* stands for 'octokit-load-balancer', shortened to two characters.        *)
(***************************************************************************)
DEBUG_KEY == <<"o", "b">>

Alphabet == {"o", "b", ",", "*"}

Unset == [set |-> FALSE, s |-> <<>>]

Str(s) == [set |-> TRUE, s |-> s]

DebugValues == {Unset} \cup { Str(s) : s \in SeqsUpTo(Alphabet, MaxDebugLen) }

\* The values the main specification switches DEBUG between.
DebugToggles == {Unset, Str(<<"*">>)}

\* The values the diagnostics specification switches DEBUG between.
LogToggles == {Unset, Str(<<>>), Str(<<"*">>), Str(DEBUG_KEY), Str(<<"b">>)}

\* s.startsWith(t, k): t occurs in s at offset k (0-based).
StartsAt(s, t, k) ==
    /\ k + Len(t) <= Len(s)
    /\ \A n \in 1..Len(t) : s[k + n] = t[n]

\* String.prototype.includes: search for t from offset k on.
RECURSIVE includesFrom(_, _, _)
includesFrom(s, t, k) ==
    IF k + Len(t) > Len(s) THEN FALSE
    ELSE IF StartsAt(s, t, k) THEN TRUE
    ELSE includesFrom(s, t, k + 1)

includes(s, t) == includesFrom(s, t, 0)

\* Variant: DEBUG must equal '*' or DEBUG_KEY.
isDebugEnabled_exact(debug) ==
    IF ~debug.set \/ debug.s = <<>> THEN FALSE
    ELSE debug.s = <<"*">> \/ debug.s = DEBUG_KEY

isDebugEnabled(debug) ==
    IF ~debug.set \/ debug.s = <<>> THEN FALSE
    ELSE debug.s = <<"*">> \/ includes(debug.s, DEBUG_KEY)

Line(msg, arg) == [tag |-> DEBUG_KEY, msg |-> msg, arg |-> arg]

\* log(...args) under the current value of DEBUG: the console afterwards.
log(cons, debug, line) ==
    IF isDebugEnabled(debug) THEN Append(cons, line) ELSE cons

\* The record of one call of log: its line, the value DEBUG had, and whether
\* the console received the line.
LogCall(cons, debug, line) ==
    [line |-> line, env |-> debug, emitted |-> log(cons, debug, line) # cons]

(***************************************************************************)
(* The state machine.                                                      *)
(***************************************************************************)
InitCall ==
    /\ pc = "idle"
    /\ config = NoConfig
    /\ quota = <<>>
    /\ octokits = <<>>
    /\ issued = <<>>
    /\ probe = <<>>
    /\ values = <<>>
    /\ join = NoJoin
    /\ rateLimits = <<>>
    /\ result = NoResult
    /\ console = <<>>
    /\ logCalls = <<>>
    /\ outOfOrder = FALSE

Init == InitCall /\ DEBUG \in DebugToggles

\* Variant: the map over the clients stops one short of the last.
Issued_dropLast(oks) == [i \in 1..(Len(oks) - 1) |-> 1]

\* octokits.map((o, i) => getRateLimit(o, i)): getRateLimit sends one
\* rateLimit.get() request for each client, and nothing sends another.
Issued(oks) == [i \in 1..Len(oks) |-> 1]

\* getApp(c) up to its await: the validation, the first diagnostic, the
\* construction of the clients and the start of one probe per client.  q is
\* the remaining quota the server holds for each app of the pool.
Call(c, q) ==
    /\ config' = c
    /\ quota' = q
    /\ octokits' = Octokits(c)
    /\ issued' = Issued(Octokits(c))
    /\ probe' = [i \in 1..Len(Octokits(c)) |-> [state |-> "pending", error |-> NoError]]
    /\ values' = [i \in 1..Len(Octokits(c)) |-> Hole]
    /\ IF Validate(c) # NoError
       THEN /\ pc' = "done"
            /\ result' = Throw(Validate(c))
            /\ join' = NoJoin
            /\ UNCHANGED <<console, logCalls>>
       ELSE /\ pc' = "await"
            /\ result' = NoResult
            /\ join' = PromiseAll(Len(Octokits(c)))
            /\ console' = log(console, DEBUG, Line("Using", Len(c.apps.items)))
            /\ logCalls' = Append(logCalls,
                   LogCall(console, DEBUG, Line("Using", Len(c.apps.items))))
    /\ UNCHANGED <<DEBUG, rateLimits, outOfOrder>>

\* The remaining quotas the server may hold for the apps of request c.
Quotas(c) == [1..Len(Octokits(c)) -> 0..MaxRemaining]

EarlierPending(i) == \E j \in 1..(i - 1) : probe[j].state = "pending"

\* The probe of client i (1-based position) completes with the server's rate.
ProbeFulfil(i) ==
    /\ pc \in {"await", "done"}
    /\ i \in DOMAIN probe
    /\ probe[i].state = "pending"
    /\ probe' = [probe EXCEPT ![i].state = "fulfilled"]
    /\ values' = PromiseAllStore(values, i, getRateLimit(octokits[i], i - 1, quota))
    /\ join' = PromiseAllOnFulfil(join, probe')
    /\ outOfOrder' = (outOfOrder \/ EarlierPending(i))
    /\ UNCHANGED <<pc, config, DEBUG, quota, octokits, issued, rateLimits,
                   result, console, logCalls>>

\* The probe of client i fails in the network layer.
ProbeReject(i, name) ==
    /\ pc \in {"await", "done"}
    /\ i \in DOMAIN probe
    /\ probe[i].state = "pending"
    /\ probe' = [probe EXCEPT ![i] = [state |-> "rejected",
                                      error |-> ProbeError(name, i - 1)]]
    /\ join' = PromiseAllOnReject(join, probe', ProbeError(name, i - 1))
    /\ outOfOrder' = (outOfOrder \/ EarlierPending(i))
    /\ UNCHANGED <<pc, config, DEBUG, quota, octokits, issued, values,
                   rateLimits, result, console, logCalls>>

\* getApp after its await: it throws the reason of a rejected join, or logs
\* the snapshots, reduces them and throws PoolExhausted or logs and returns
\* the selected client.
Resume ==
    /\ pc = "await"
    /\ join.state # "pending"
    /\ pc' = "done"
    /\ IF join.state = "rejected"
       THEN /\ result' = Throw(join.reason)
            /\ UNCHANGED <<rateLimits, console, logCalls>>
       ELSE /\ rateLimits' = values
            /\ result' = Select(values, octokits)
            /\ LET c1 == log(console, DEBUG, Line("Rate limits", Len(values)))
                   l1 == LogCall(console, DEBUG, Line("Rate limits", Len(values)))
                   sel == Line("Selected", Select(values, octokits).bestIndex)
               IN  IF Select(values, octokits).kind = "client"
                   THEN /\ console' = log(c1, DEBUG, sel)
                        /\ logCalls' = logCalls \o <<l1, LogCall(c1, DEBUG, sel)>>
                   ELSE /\ console' = c1
                        /\ logCalls' = Append(logCalls, l1)
    /\ UNCHANGED <<config, DEBUG, quota, octokits, issued, probe, values, join,
                   outOfOrder>>

\* Other code of the process changes process.env.DEBUG while getApp is
\* suspended at its await.
SetDebug(v) ==
    /\ pc = "await"
    /\ v # DEBUG
    /\ DEBUG' = v
    /\ UNCHANGED <<pc, config, quota, octokits, issued, probe, values, join,
                   rateLimits, result, console, logCalls, outOfOrder>>

\* A caller calls getApp with some request, the server holding some quotas.
GetApp ==
    /\ pc = "idle"
    /\ \E c \in Requests : \E q \in Quotas(c) : Call(c, q)

Next ==
    \/ GetApp
    \/ \E i \in 1..MaxApps : ProbeFulfil(i)
    \/ \E i \in 1..MaxApps : \E name \in ProbeErrorNames : ProbeReject(i, name)
    \/ Resume
    \/ \E v \in DebugToggles : SetDebug(v)

Spec == Init /\ [][Next]_vars

(***************************************************************************)
(* The diagnostics specification: one getApp call on a pool of at most one *)
(* app, under every value of DEBUG up to MaxDebugLen characters.           *)
(***************************************************************************)
LogRequests == { c \in Requests : Len(c.apps.items) <= 1 }

InitLog == InitCall /\ DEBUG \in DebugValues

GetAppLog ==
    /\ pc = "idle"
    /\ \E c \in LogRequests : \E q \in Quotas(c) : Call(c, q)

NextLog ==
    \/ GetAppLog
    \/ \E i \in 1..MaxApps : ProbeFulfil(i)
    \/ \E i \in 1..MaxApps : \E name \in ProbeErrorNames : ProbeReject(i, name)
    \/ Resume
    \/ \E v \in LogToggles : SetDebug(v)

SpecLog == InitLog /\ [][NextLog]_vars

(***************************************************************************)
(* Properties.                                                             *)
(***************************************************************************)
\* The request is an object whose apps is an array and baseUrl a string.
WellTyped ==
    /\ config.kind = "object"
    /\ config.apps.isArray
    /\ typeofBaseUrl(config.baseUrl) = "string"

\* The entry lacks a truthy appId or a truthy privateKey.
Lacks(app) == ~Truthy(app.appId) \/ ~Truthy(app.privateKey)

Incomplete == { i \in DOMAIN config.apps.items : Lacks(config.apps.items[i]) }

\* A non-empty pool in which every entry has a truthy appId and privateKey.
ValidPool == WellTyped /\ Len(config.apps.items) > 0 /\ Incomplete = {}

\* getApp has received a snapshot from every probe.
AllSnapshots ==
    /\ pc = "done"
    /\ ValidPool
    /\ Fulfilled(probe) = DOMAIN probe
    /\ DOMAIN rateLimits = DOMAIN config.apps.items

\* b (0-based) is the smallest index whose snapshot has the maximum remaining.
FirstMax(rl, b) ==
    /\ b + 1 \in DOMAIN rl
    /\ \A j \in DOMAIN rl : rl[j].remaining <= rl[b + 1].remaining
    /\ \A j \in 1..b : rl[j].remaining < rl[b + 1].remaining

\* C1: for a valid non-empty pool whose probes all succeed and of which some
\* snapshot has remaining > 0, getApp returns the client constructed for the
\* smallest index whose snapshot has the maximum remaining.
C1_ReturnsFirstMax ==
    (AllSnapshots /\ \E i \in DOMAIN rateLimits : rateLimits[i].remaining > 0)
    => /\ result.kind = "client"
       /\ FirstMax(rateLimits, result.bestIndex)
       /\ result.octokit = octokits[result.bestIndex + 1].app
       /\ result.octokit = result.bestIndex

C1_Witness ==
    /\ AllSnapshots
    /\ Len(rateLimits) = 3
    /\ rateLimits[1].remaining = 1
    /\ rateLimits[2].remaining = 2
    /\ rateLimits[3].remaining = 2
    /\ result.kind = "client"
    /\ result.bestIndex = 1

\* C2: for a valid non-empty pool with all snapshots received, getApp fails
\* with PoolExhausted exactly when every snapshot's remaining is 0;
\* PoolExhausted is raised only after all probes of the call have succeeded,
\* and no returned client has a snapshot with remaining 0.
C2_ExhaustedIffAllZero ==
    /\ AllSnapshots =>
           (result = Throw(PoolExhausted)
               <=> \A i \in DOMAIN rateLimits : rateLimits[i].remaining = 0)
    /\ result.error.type = "PoolExhausted" =>
           /\ result.kind = "error"
           /\ probe # <<>>
           /\ Fulfilled(probe) = DOMAIN probe
           /\ DOMAIN rateLimits = DOMAIN probe
    /\ result.kind = "client" =>
           /\ result.bestIndex + 1 \in DOMAIN rateLimits
           /\ rateLimits[result.bestIndex + 1].remaining # 0

C2_Witness ==
    /\ AllSnapshots
    /\ Len(rateLimits) = 3
    /\ \A i \in DOMAIN rateLimits : rateLimits[i].remaining = 0
    /\ result = Throw(PoolExhausted)

RECURSIVE Sum(_)
Sum(seq) == IF seq = <<>> THEN 0 ELSE Head(seq) + Sum(Tail(seq))

\* C4: when getApp has failed with a validation error, it has constructed no
\* client and issued no probe, in that state and in every later one.
C4_ValidationBeforeProbes ==
    (result.kind = "error" /\ result.error.type \in ValidationErrorTypes)
    => /\ octokits = <<>>
       /\ Sum(issued) = 0
       /\ probe = <<>>

C4_Witness ==
    /\ pc = "done"
    /\ result.error.type = "IncompleteConfig"
    /\ \E i \in DOMAIN config.apps.items : isCompleteConfig(config.apps.items[i])
    /\ Sum(issued) = 0

\* config.apps is the empty array.
EmptyApps == config.kind = "object" /\ config.apps.isArray /\ config.apps.items = <<>>

\* C5 as stated: for an empty app list, getApp fails with EmptyPool whatever
\* the value of baseUrl.
C5_EmptyPoolAnyBaseUrl ==
    (pc = "done" /\ EmptyApps) => result = Throw(EmptyPool)

\* C5 as amended: for an empty app list, getApp fails with EmptyPool when
\* baseUrl is a string (empty or not), and with InvalidRequest "baseUrl must
\* be a string" when baseUrl is not a string or is missing.
C5_EmptyPoolStringBaseUrl ==
    (pc = "done" /\ EmptyApps)
    => /\ typeofBaseUrl(config.baseUrl) = "string" => result = Throw(EmptyPool)
       /\ typeofBaseUrl(config.baseUrl) # "string" => result = Throw(InvalidBaseUrl)

C5_Witness ==
    /\ pc = "done"
    /\ EmptyApps
    /\ config.baseUrl = ""
    /\ result = Throw(EmptyPool)

C7_NoSettleWhilePending ==
    pc = "done" => Pending(probe) = {}

\* C7 as amended: getApp reduces the snapshots, returns a client or fails with
\* PoolExhausted only when every issued probe has fulfilled; it fails with a
\* probe's error as soon as one probe has failed, whether or not the other
\* probes are still pending.
C7_JoinBeforeReduce ==
    /\ (rateLimits # <<>> \/ result.kind = "client" \/ result.error = PoolExhausted)
           => (probe # <<>> /\ Fulfilled(probe) = DOMAIN probe)
    /\ (pc = "done" /\ probe # <<>> /\ Fulfilled(probe) # DOMAIN probe)
           => (Rejected(probe) # {} /\ result = Throw(join.reason)
                   /\ join.state = "rejected")

C7_Witness ==
    /\ pc = "done"
    /\ result.kind = "error"
    /\ result.error.at = 1
    /\ Len(probe) = 3
    /\ probe[1].state = "fulfilled"
    /\ probe[2].state = "rejected"
    /\ probe[3].state = "pending"

\* The outcome the remaining quotas of the apps determine, by original index.
Outcome(q) ==
    IF \A i \in DOMAIN q : q[i] = 0 THEN Throw(PoolExhausted)
    ELSE LET b == CHOOSE b \in DOMAIN q :
                      /\ \A j \in DOMAIN q : q[j] <= q[b]
                      /\ \A j \in 1..(b - 1) : q[j] < q[b]
         IN  [kind |-> "client", error |-> NoError, bestIndex |-> b - 1,
              octokit |-> b - 1]

\* C8: with all probes succeeded, the outcome is determined by the remaining
\* value of each original index, whatever the order the probes completed in,
\* and the snapshot at position i carries appIndex i and is the result of the
\* probe on the client built from apps[i].
C8_OrderIndependent ==
    /\ \A i \in DOMAIN values :
           values[i] # Hole =>
               /\ values[i].appIndex = i - 1
               /\ octokits[i].app = i - 1
               /\ octokits[i].appId = config.apps.items[i].appId
               /\ values[i].remaining = quota[i]
    /\ AllSnapshots =>
           /\ result = Outcome(quota)
           /\ \A i \in DOMAIN rateLimits :
                  /\ rateLimits[i].appIndex = i - 1
                  /\ rateLimits[i].remaining = quota[i]

C8_Witness ==
    /\ AllSnapshots
    /\ outOfOrder
    /\ quota = <<1, 2, 0>>
    /\ result.kind = "client"
    /\ result.bestIndex = 1

\* C9: once a probe of the call has failed, the call fails with the error of
\* a failed probe unchanged (of the one failed probe when there is only one):
\* it returns no client, reduces nothing, and does not fail with PoolExhausted
\* or a validation error.
C9_ProbeFailureFailsCall ==
    Rejected(probe) # {} =>
        /\ join = [state |-> "rejected", reason |-> join.reason]
        /\ join.reason.at + 1 \in Rejected(probe)
        /\ join.reason = probe[join.reason.at + 1].error
        /\ join.reason.type \in ProbeErrorNames
        /\ rateLimits = <<>>
        /\ pc = "done" => result = Throw(join.reason)
        /\ result.kind # "client"

C9_Witness ==
    /\ pc = "done"
    /\ Len(probe) = 3
    /\ Rejected(probe) = {2}
    /\ Fulfilled(probe) = {1, 3}
    /\ quota = <<2, 0, 1>>
    /\ result = Throw(probe[2].error)

\* DEBUG is '*', or DEBUG_KEY is one of the items of its comma-separated list.
ItemMatch(env) ==
    /\ env.set
    /\ \/ env.s = <<"*">>
       \/ \E i \in 1..Len(env.s) :
              /\ i + Len(DEBUG_KEY) - 1 <= Len(env.s)
              /\ SubSeq(env.s, i, i + Len(DEBUG_KEY) - 1) = DEBUG_KEY
              /\ (i = 1 \/ env.s[i - 1] = ",")
              /\ (i + Len(DEBUG_KEY) - 1 = Len(env.s)
                      \/ env.s[i + Len(DEBUG_KEY)] = ",")

\* DEBUG is '*', or DEBUG_KEY occurs somewhere in it.
SubstringMatch(env) ==
    /\ env.set
    /\ \/ env.s = <<"*">>
       \/ \E i \in 1..Len(env.s) :
              /\ i + Len(DEBUG_KEY) - 1 <= Len(env.s)
              /\ SubSeq(env.s, i, i + Len(DEBUG_KEY) - 1) = DEBUG_KEY

\* The lines of the calls of log that emitted, in order.
RECURSIVE EmittedLines(_)
EmittedLines(calls) ==
    IF calls = <<>> THEN <<>>
    ELSE IF Head(calls).emitted
         THEN <<Head(calls).line>> \o EmittedLines(Tail(calls))
         ELSE EmittedLines(Tail(calls))

\* C10 as stated: a call of log emits exactly when the DEBUG it sees is '*' or
\* has DEBUG_KEY as an item of its comma-separated list.
C10_EmitsIffItem ==
    \A k \in DOMAIN logCalls :
        logCalls[k].emitted <=> ItemMatch(logCalls[k].env)

\* C10 as amended: a call of log emits a line carrying the tag exactly when
\* the DEBUG it sees at that call is '*' or contains DEBUG_KEY anywhere, as an
\* item of the list or inside a longer item; an unset or empty DEBUG emits
\* nothing; a successful getApp emits at least one line when every call saw a
\* matching DEBUG and none when every call saw it unset.
C10_EmitsIffSubstring ==
    /\ \A k \in DOMAIN logCalls :
           /\ logCalls[k].emitted <=> SubstringMatch(logCalls[k].env)
           /\ (~logCalls[k].env.set \/ logCalls[k].env.s = <<>>)
                  => ~logCalls[k].emitted
           /\ logCalls[k].line.tag = DEBUG_KEY
    /\ console = EmittedLines(logCalls)
    /\ (pc = "done" /\ result.kind = "client") =>
           /\ Len(logCalls) = 3
           /\ (\A k \in DOMAIN logCalls : ItemMatch(logCalls[k].env))
                  => Len(console) >= 1
           /\ (\A k \in DOMAIN logCalls : ~logCalls[k].env.set)
                  => console = <<>>

C10_Witness ==
    /\ pc = "done"
    /\ result.kind = "client"
    /\ Len(logCalls) = 3
    /\ logCalls[1].env = Str(<<"b", ",", "o", "b">>)
    /\ logCalls[1].emitted
    /\ logCalls[2].env = Str(<<"b">>)
    /\ ~logCalls[2].emitted
    /\ Len(console) = 1

\* C11: a call that passed validation on a pool of N entries has constructed
\* exactly N clients, the client at position i from apps[i], and has issued
\* exactly one probe for each of them and for nothing else; this stays so in
\* every later state of the call, also after a probe has failed.
C11_OneProbePerEntry ==
    (pc # "idle" /\ ValidPool)
    => /\ Len(octokits) = Len(config.apps.items)
       /\ \A i \in DOMAIN octokits : octokits[i].app = i - 1
       /\ DOMAIN issued = DOMAIN octokits
       /\ \A i \in DOMAIN issued : issued[i] = 1
       /\ Sum(issued) = Len(config.apps.items)
       /\ DOMAIN probe = DOMAIN octokits

C11_Witness ==
    /\ pc = "done"
    /\ ValidPool
    /\ Len(config.apps.items) = 3
    /\ Rejected(probe) = {1}
    /\ Fulfilled(probe) = {2, 3}
    /\ issued = <<1, 1, 1>>

====
